---- MODULE Spec2Model ----
(***************************************************************************)
(* Model of src/tetgen_stb.h: point location and ray traversal in a        *)
(* tetrahedral mesh.                                                       *)
(*                                                                         *)
(* Coordinates are integers.  The source computes in float; every          *)
(* coordinate, difference, cross product and triple product that occurs   *)
(* in the model is an integer far below 2^24, so the float arithmetic of   *)
(* the source is exact on these inputs and the signs are the same.        *)
(* Arrays of the source are 0-based; sequences here are 1-based, so        *)
(* a[i] of the source is a[i + 1] here.                                    *)
(***************************************************************************)
EXTENDS Integers, Sequences, FiniteSets, TLC

VARIABLES
    mesh,         \* the mesh2 the calls work on (read-only after load)
    op,           \* the function being executed
    rayo, rayd,   \* arguments rayo, rayd
    start,        \* argument start
    endp,         \* argument end (traverse_until_point), p (GetTetrahedraFromPoint)
    tetv,         \* arguments v1..v4 of IsPointInTetrahedron
    current_tet,  \* local current_tet
    nexttet,      \* local nexttet
    nextface,     \* local nextface
    lastface,     \* local lastface
    hitfound,     \* local hitfound
    d,            \* the rayhit passed by reference
    idx,          \* loop variable i of GetTetrahedraFromPoint
    ret,          \* value returned by GetTetrahedraFromPoint
    pit,          \* value returned by IsPointInTetrahedron
    pc,           \* position in the executing function
    calls,        \* history: number of GetExitTet invocations of this call
    oob,          \* history: a mesh array was indexed outside its size
    nomatch,      \* history: tetrahedron of the first pass in which GetExitTet matched
                  \* no sign pattern, -1 before
    stopped_at,   \* history: value of d.depth when hitfound was set, -1 before
    caller        \* the caller of traverse_ray: how many calls it has made after the
                  \* first, a rayhit it kept from an earlier call, and the rayhit a
                  \* call with the present arguments gave on a fresh record

vars == <<mesh, op, rayo, rayd, start, endp, tetv, current_tet, nexttet, nextface,
          lastface, hitfound, d, idx, ret, pit, pc, calls, oob, nomatch, stopped_at,
          caller>>

(***************************************************************************)
(* Vector algebra                                                          *)
(***************************************************************************)
VSub(a, b) == <<a[1] - b[1], a[2] - b[2], a[3] - b[3]>>

Dot(a, b) == a[1] * b[1] + a[2] * b[2] + a[3] * b[3]

Cross(a, b) == <<a[2] * b[3] - a[3] * b[2],
                 a[3] * b[1] - a[1] * b[3],
                 a[1] * b[2] - a[2] * b[1]>>

ScTP(a, b, c) == Dot(a, Cross(b, c))

signf(f) == IF f > 0 THEN 1 ELSE IF f < 0 THEN -1 ELSE 0

(***************************************************************************)
(* Point containment                                                       *)
(***************************************************************************)
SameSide_ZeroInside(v1, v2, v3, v4, p) ==
    LET normal == Cross(VSub(v2, v1), VSub(v3, v1))
        dotV4  == Dot(normal, VSub(v4, v1))
        dotP   == Dot(normal, VSub(p, v1))
    IN  signf(dotV4) * signf(dotP) >= 0

SameSide(v1, v2, v3, v4, p) ==
    LET normal == Cross(VSub(v2, v1), VSub(v3, v1))
        dotV4  == Dot(normal, VSub(v4, v1))
        dotP   == Dot(normal, VSub(p, v1))
    IN  signf(dotV4) = signf(dotP)

IsPointInTetrahedron(v1, v2, v3, v4, p) ==
    /\ SameSide(v1, v2, v3, v4, p)
    /\ SameSide(v2, v3, v4, v1, p)
    /\ SameSide(v3, v4, v1, v2, p)
    /\ SameSide(v4, v1, v2, v3, p)

(***************************************************************************)
(* Exit-face resolver                                                      *)
(***************************************************************************)
EdgeSigns(ray_o, ray_d, nodes) ==
    LET q  == ray_d
        p0 == VSub(nodes[1], ray_o)
        p1 == VSub(nodes[2], ray_o)
        p2 == VSub(nodes[3], ray_o)
        p3 == VSub(nodes[4], ray_o)
    IN  [sQAB |-> signf(ScTP(q, p0, p1)),
         sQBC |-> signf(ScTP(q, p1, p2)),
         sQAC |-> signf(ScTP(q, p0, p2)),
         sQAD |-> signf(ScTP(q, p0, p3)),
         sQBD |-> signf(ScTP(q, p1, p3)),
         sQCD |-> signf(ScTP(q, p2, p3))]

ExitABC(s) == /\ s.sQAB # 0 /\ s.sQAC # 0 /\ s.sQBC # 0
              /\ s.sQAB < 0 /\ s.sQAC > 0 /\ s.sQBC < 0

ExitBAD(s) == /\ s.sQAB # 0 /\ s.sQAD # 0 /\ s.sQBD # 0
              /\ s.sQAB > 0 /\ s.sQAD < 0 /\ s.sQBD > 0

ExitCDA(s) == /\ s.sQAD # 0 /\ s.sQAC # 0 /\ s.sQCD # 0
              /\ s.sQAD > 0 /\ s.sQAC < 0 /\ s.sQCD < 0

\* faulty variant: the sign of QBD is tested the wrong way round
ExitDCB_WrongSign(s) == /\ s.sQBC # 0 /\ s.sQBD # 0 /\ s.sQCD # 0
                        /\ s.sQBC > 0 /\ s.sQBD > 0 /\ s.sQCD > 0

ExitDCB(s) == /\ s.sQBC # 0 /\ s.sQBD # 0 /\ s.sQCD # 0
              /\ s.sQBC > 0 /\ s.sQBD < 0 /\ s.sQCD > 0

\* faulty variant: the patterns ABC and BAD answer with each other's slot
ExitOf_SlotsSwapped(s, findex, adjtet) ==
    LET r0 == [face |-> 0, tet |-> 0]
        r1 == IF ExitABC(s) THEN [face |-> findex[3], tet |-> adjtet[3]] ELSE r0
        r2 == IF ExitBAD(s) THEN [face |-> findex[4], tet |-> adjtet[4]] ELSE r1
        r3 == IF ExitCDA(s) THEN [face |-> findex[2], tet |-> adjtet[2]] ELSE r2
        r4 == IF ExitDCB(s) THEN [face |-> findex[1], tet |-> adjtet[1]] ELSE r3
    IN  r4

\* the four ifs run in this order, each overwriting face and tet when it matches
ExitOf(s, findex, adjtet) ==
    LET r0 == [face |-> 0, tet |-> 0]
        r1 == IF ExitABC(s) THEN [face |-> findex[4], tet |-> adjtet[4]] ELSE r0
        r2 == IF ExitBAD(s) THEN [face |-> findex[3], tet |-> adjtet[3]] ELSE r1
        r3 == IF ExitCDA(s) THEN [face |-> findex[2], tet |-> adjtet[2]] ELSE r2
        r4 == IF ExitDCB(s) THEN [face |-> findex[1], tet |-> adjtet[1]] ELSE r3
    IN  r4

GetExitTet(ray_o, ray_d, nodes, findex, adjtet) ==
    ExitOf(EdgeSigns(ray_o, ray_d, nodes), findex, adjtet)

NoExitMatch(ray_o, ray_d, nodes) ==
    LET s == EdgeSigns(ray_o, ray_d, nodes)
    IN  ~ExitABC(s) /\ ~ExitBAD(s) /\ ~ExitCDA(s) /\ ~ExitDCB(s)

(***************************************************************************)
(* Meshes                                                                  *)
(***************************************************************************)
\* nodes A, B, C, D, E
NodesAE == << <<0, 0, 0>>, <<10, 0, 0>>, <<0, 10, 0>>, <<0, 0, 10>>, <<10, 10, 10>> >>

Flags(n, S) == [f \in 1..n |-> (f - 1) \in S]

\* mesh2 with tetnum = 0
EmptyMesh ==
    [tetnum |-> 0, nodenum |-> 0, facenum |-> 0, n |-> << >>,
     t_nindex |-> << >>, t_findex |-> << >>, t_adjtet |-> << >>, f_nodes |-> << >>,
     face_is_constrained |-> << >>, face_is_wall |-> << >>]

\* one tetrahedron ABCD; slot k holds the face opposite vertex k
OneTet(con, wall) ==
    [tetnum |-> 1, nodenum |-> 4, facenum |-> 4, n |-> SubSeq(NodesAE, 1, 4),
     t_nindex |-> << <<0, 1, 2, 3>> >>,
     t_findex |-> << <<1, 2, 3, 0>> >>,
     t_adjtet |-> << <<-1, -1, -1, -1>> >>,
     f_nodes  |-> << {0, 1, 2}, {1, 2, 3}, {0, 2, 3}, {0, 1, 3} >>,
     face_is_constrained |-> Flags(4, con), face_is_wall |-> Flags(4, wall)]

\* tetrahedra 0 = ABCD and 1 = BCDE sharing face BCD, which has index sh (0 or 3)
TwoTets(sh, adj0, adj1, con, wall) ==
    [tetnum |-> 2, nodenum |-> 5, facenum |-> 7, n |-> NodesAE,
     t_nindex |-> << <<0, 1, 2, 3>>, <<1, 2, 3, 4>> >>,
     t_findex |-> IF sh = 0 THEN << <<0, 1, 2, 3>>, <<4, 5, 6, 0>> >>
                            ELSE << <<3, 0, 1, 2>>, <<4, 5, 6, 3>> >>,
     t_adjtet |-> <<adj0, adj1>>,
     f_nodes  |-> IF sh = 0
                  THEN << {1, 2, 3}, {0, 2, 3}, {0, 1, 3}, {0, 1, 2},
                          {2, 3, 4}, {1, 3, 4}, {1, 2, 4} >>
                  ELSE << {0, 2, 3}, {0, 1, 3}, {0, 1, 2}, {1, 2, 3},
                          {2, 3, 4}, {1, 3, 4}, {1, 2, 4} >>,
     face_is_constrained |-> Flags(7, con), face_is_wall |-> Flags(7, wall)]

AllWallTet == OneTet({}, 0..3)

SharedAt3 == TwoTets(3, <<1, -1, -1, -1>>, <<-1, -1, -1, 0>>, {}, (0..6) \ {3})

SharedAt0 == TwoTets(0, <<1, -1, -1, -1>>, <<-1, -1, -1, 0>>, {}, 1..6)

Meshes ==
    { EmptyMesh,
      AllWallTet,
      OneTet({}, {}),
      OneTet(0..3, {}),
      OneTet(0..3, 0..3),
      SharedAt3,
      SharedAt0,
      TwoTets(0, <<1, -1, -1, -1>>, <<-1, -1, -1, 0>>, {0}, 1..6),
      TwoTets(3, <<1, 1, 1, 1>>, <<0, 0, 0, 0>>, {}, {}) }

(***************************************************************************)
(* Call arguments                                                          *)
(***************************************************************************)
DepthBound == 80

MaxStart == 2

Origins == { <<1, 1, 1>>, <<1, 2, 3>> }

Directions == { <<1, 1, 1>>, <<2, 3, 4>>, <<-1, -2, -3>>, <<3, 1, 2>>, <<-1, 0, 0>> }

Targets == { <<1, 1, 1>>, <<5, 5, 5>>, <<20, 20, 20>> }

Starts == 0..MaxStart

FreshRayhit ==
    [tet |-> 0, face |-> 0, depth |-> 0, wall |-> FALSE, constrained |-> FALSE,
     dark |-> FALSE]

(***************************************************************************)
(* Reads of the mesh arrays.  Indexing an array outside its size is        *)
(* undefined behaviour: the access faults, or the call goes on with        *)
(* whatever lies there and hands back a rayhit of any content.             *)
(***************************************************************************)
InRange(i, n) == 0 <= i /\ i < n

TetNodes(m, t) ==
    << m.n[m.t_nindex[t + 1][1] + 1], m.n[m.t_nindex[t + 1][2] + 1],
       m.n[m.t_nindex[t + 1][3] + 1], m.n[m.t_nindex[t + 1][4] + 1] >>

TetRead(m, t) ==
    [findex |-> m.t_findex[t + 1], adjtets |-> m.t_adjtet[t + 1], nodes |-> TetNodes(m, t)]

UndefinedRayhits(dd) ==
    { [dd EXCEPT !.tet = t, !.face = f, !.wall = w, !.constrained = c, !.dark = k] :
        t \in {-1, 0}, f \in {-1, 0}, w \in BOOLEAN, c \in BOOLEAN, k \in BOOLEAN }

IsPointInThisTet(m, v, tet) ==
    LET nodes == TetNodes(m, tet)
    IN  IsPointInTetrahedron(nodes[1], nodes[2], nodes[3], nodes[4], v)

(***************************************************************************)
(* traverse_ray and traverse_until_point                                   *)
(***************************************************************************)
\* faulty variant: while (!hitfound), no depth bound
LoopContinues_NoBound(depth, hit) == ~hit

\* for (d.depth = 0; d.depth < 80; d.depth++)
LoopContinues(depth, hit) == depth < DepthBound

\* if (IsPointInTetrahedron(...)) { hitfound = true; d.face = nextface; d.tet = current_tet; }
OnTarget(dd, inside, face, tet) ==
    IF inside THEN [dd EXCEPT !.face = face, !.tet = tet] ELSE dd

\* if (face_is_constrained[nextface]) { d.constrained = true; d.face = ...; d.tet = ...; hitfound = true; }
OnConstrained(dd, flag, face, tet) ==
    IF flag THEN [dd EXCEPT !.constrained = TRUE, !.face = face, !.tet = tet] ELSE dd

\* if (face_is_wall[nextface]) { d.wall = true; d.face = ...; d.tet = ...; hitfound = true; }
OnWall(dd, flag, face, tet) ==
    IF flag THEN [dd EXCEPT !.wall = TRUE, !.face = face, !.tet = tet] ELSE dd

\* if (nexttet == -1 || nextface == -1) { d.wall = true; d.face = ...; d.tet = ...; hitfound = true; }
OnNoNeighbour(dd, ntet, nface, tet) ==
    IF ntet = -1 \/ nface = -1
    THEN [dd EXCEPT !.wall = TRUE, !.face = nface, !.tet = tet]
    ELSE dd

\* faulty variant: the walk stays in the tetrahedron it is in
Advance_Stays(cur, ntet) == cur

\* the tetrahedron the walk looks at next: current_tet = nexttet
Advance(cur, ntet) == ntet

\* faulty variant: dark is set without testing hitfound
OnExhausted_Always(dd, hit, nface, cur) ==
    [dd EXCEPT !.dark = TRUE, !.face = nface, !.tet = cur]

\* after the loop: if (!hitfound) { d.dark = true; d.face = nextface; d.tet = current_tet; }
OnExhausted(dd, hit, nface, cur) ==
    IF ~hit THEN [dd EXCEPT !.dark = TRUE, !.face = nface, !.tet = cur] ELSE dd

Call(f, o, dir, s, e) ==
    /\ pc = "idle"
    /\ op' = f
    /\ rayo' = o
    /\ rayd' = dir
    /\ start' = s
    /\ endp' = e
    /\ current_tet' = s
    /\ lastface' = 0
    /\ hitfound' = FALSE
    /\ d' = [d EXCEPT !.depth = 0]
    /\ calls' = 0
    /\ nomatch' = -1
    /\ stopped_at' = -1
    /\ pc' = "loop"
    /\ UNCHANGED <<caller, mesh, tetv, nexttet, nextface, idx, ret, pit, oob>>

\* one pass of the for loop, d.depth++ included
LoopPass(withTarget) ==
    /\ pc = "loop"
    /\ LoopContinues(d.depth, hitfound)
    /\ IF hitfound
       THEN /\ d' = [d EXCEPT !.depth = @ + 1]
            /\ UNCHANGED <<current_tet, nexttet, nextface, lastface, hitfound, pc, calls,
                           oob, nomatch, stopped_at>>
       ELSE IF ~InRange(current_tet, mesh.tetnum)
       THEN \* t_findex1[current_tet] ... read outside the arrays
            /\ oob' = TRUE
            /\ \/ pc' = "fault" /\ UNCHANGED d
               \/ pc' = "done" /\ d' \in UndefinedRayhits(d)
            /\ UNCHANGED <<current_tet, nexttet, nextface, lastface, hitfound, calls,
                           nomatch, stopped_at>>
       ELSE LET tv     == TetRead(mesh, current_tet)
                ex     == GetExitTet(rayo, rayd, tv.nodes, tv.findex, tv.adjtets)
                inside == withTarget /\ IsPointInTetrahedron(tv.nodes[1], tv.nodes[2],
                                                             tv.nodes[3], tv.nodes[4], endp)
            IN  IF ~InRange(ex.face, mesh.facenum)
                THEN \* face_is_constrained[nextface] read outside the array
                     /\ oob' = TRUE
                     /\ \/ pc' = "fault" /\ UNCHANGED d
                        \/ pc' = "done" /\ d' \in UndefinedRayhits(d)
                     /\ calls' = calls + 1
                     /\ UNCHANGED <<current_tet, nexttet, nextface, lastface, hitfound,
                                    nomatch, stopped_at>>
                ELSE LET fc  == mesh.face_is_constrained[ex.face + 1]
                         fw  == mesh.face_is_wall[ex.face + 1]
                         d1  == OnTarget(d, inside, ex.face, current_tet)
                         d2  == OnConstrained(d1, fc, ex.face, current_tet)
                         d3  == OnWall(d2, fw, ex.face, current_tet)
                         d4  == OnNoNeighbour(d3, ex.tet, ex.face, current_tet)
                         hit == inside \/ fc \/ fw \/ ex.tet = -1 \/ ex.face = -1
                     IN  /\ nexttet' = ex.tet
                         /\ nextface' = ex.face
                         /\ d' = [d4 EXCEPT !.depth = @ + 1]
                         /\ hitfound' = hit
                         /\ lastface' = ex.face
                         /\ current_tet' = Advance(current_tet, ex.tet)
                         /\ calls' = calls + 1
                         /\ nomatch' = IF nomatch = -1 /\ NoExitMatch(rayo, rayd, tv.nodes)
                                        THEN current_tet ELSE nomatch
                         /\ stopped_at' = IF hit THEN d.depth ELSE -1
                         /\ UNCHANGED <<pc, oob>>
    /\ UNCHANGED <<caller, mesh, op, rayo, rayd, start, endp, tetv, idx, ret, pit>>

LoopExit ==
    /\ pc = "loop"
    /\ ~LoopContinues(d.depth, hitfound)
    /\ d' = OnExhausted(d, hitfound, nextface, current_tet)
    /\ pc' = "done"
    /\ UNCHANGED <<caller, mesh, op, rayo, rayd, start, endp, tetv, current_tet, nexttet, nextface,
                   lastface, hitfound, idx, ret, pit, calls, oob, nomatch, stopped_at>>

call_traverse_ray ==
    \E o \in Origins, dir \in Directions, s \in Starts :
        Call("traverse_ray", o, dir, s, endp)

traverse_ray_pass == op = "traverse_ray" /\ LoopPass(FALSE)

traverse_ray_return == op = "traverse_ray" /\ LoopExit

call_traverse_until_point ==
    \E o \in Origins, dir \in Directions, s \in Starts, e \in Targets :
        Call("traverse_until_point", o, dir, s, e)

traverse_until_point_pass == op = "traverse_until_point" /\ LoopPass(TRUE)

traverse_until_point_return == op = "traverse_until_point" /\ LoopExit

(***************************************************************************)
(* GetTetrahedraFromPoint                                                  *)
(***************************************************************************)
call_GetTetrahedraFromPoint ==
    /\ pc = "idle"
    /\ \E p \in Targets : endp' = p
    /\ op' = "GetTetrahedraFromPoint"
    /\ idx' = 0
    /\ pc' = "scan"
    /\ UNCHANGED <<caller, mesh, rayo, rayd, start, tetv, current_tet, nexttet, nextface, lastface,
                   hitfound, d, ret, pit, calls, oob, nomatch, stopped_at>>

\* one pass of for (i = 0; i < tetnum; i++)
GetTetrahedraFromPoint_pass ==
    /\ pc = "scan"
    /\ idx < mesh.tetnum
    /\ IF IsPointInThisTet(mesh, endp, idx)
       THEN ret' = idx /\ pc' = "done" /\ UNCHANGED idx
       ELSE idx' = idx + 1 /\ UNCHANGED <<ret, pc>>
    /\ UNCHANGED <<caller, mesh, op, rayo, rayd, start, endp, tetv, current_tet, nexttet, nextface,
                   lastface, hitfound, d, pit, calls, oob, nomatch, stopped_at>>

\* what a caller may read after control runs off the end of the function
FallOffValues(m) == -1..m.tetnum

\* the loop ends without a return statement: the value the caller reads is undefined
GetTetrahedraFromPoint_falloff ==
    /\ pc = "scan"
    /\ ~(idx < mesh.tetnum)
    /\ ret' \in FallOffValues(mesh)
    /\ pc' = "done"
    /\ UNCHANGED <<caller, mesh, op, rayo, rayd, start, endp, tetv, current_tet, nexttet, nextface,
                   lastface, hitfound, d, idx, pit, calls, oob, nomatch, stopped_at>>

(***************************************************************************)
(* Specification of the mesh operations                                    *)
(***************************************************************************)
NoVec == <<0, 0, 0>>

NoCaller == [again |-> 0, left |-> FreshRayhit, first |-> FreshRayhit]

Init ==
    /\ mesh \in Meshes
    /\ op = "none"
    /\ rayo = NoVec
    /\ rayd = NoVec
    /\ start = 0
    /\ endp = NoVec
    /\ tetv = <<NoVec, NoVec, NoVec, NoVec>>
    /\ current_tet = 0
    /\ nexttet = 0
    /\ nextface = 0
    /\ lastface = 0
    /\ hitfound = FALSE
    /\ d = FreshRayhit
    /\ idx = 0
    /\ ret = 0
    /\ pit = FALSE
    /\ pc = "idle"
    /\ calls = 0
    /\ oob = FALSE
    /\ nomatch = -1
    /\ stopped_at = -1
    /\ caller = NoCaller

Next ==
    \/ call_traverse_ray
    \/ traverse_ray_pass
    \/ traverse_ray_return
    \/ call_traverse_until_point
    \/ traverse_until_point_pass
    \/ traverse_until_point_return
    \/ call_GetTetrahedraFromPoint
    \/ GetTetrahedraFromPoint_pass
    \/ GetTetrahedraFromPoint_falloff

Spec == Init /\ [][Next]_vars

(***************************************************************************)
(* Specification of a caller that hands traverse_ray a rayhit again: the   *)
(* record is passed by reference and the caller decides what it holds.     *)
(* After a first call the caller keeps its rayhit, calls with a fresh      *)
(* rayhit, and then repeats that call on the rayhit it kept.               *)
(***************************************************************************)
\* entry of traverse_ray on the record dd: the locals are new, d.depth = 0
Enter(o, dir, s, dd) ==
    /\ op' = "traverse_ray"
    /\ rayo' = o
    /\ rayd' = dir
    /\ start' = s
    /\ current_tet' = s
    /\ nexttet' = 0
    /\ nextface' = 0
    /\ lastface' = 0
    /\ hitfound' = FALSE
    /\ d' = [dd EXCEPT !.depth = 0]
    /\ calls' = 0
    /\ nomatch' = -1
    /\ stopped_at' = -1
    /\ pc' = "loop"
    /\ UNCHANGED <<mesh, endp, tetv, idx, ret, pit, oob>>

\* rayhit fresh; traverse_ray(mesh, o, dir, s, fresh), the earlier rayhit is kept
call_with_fresh_rayhit ==
    /\ pc = "done"
    /\ op = "traverse_ray"
    /\ ~oob
    /\ caller.again = 0
    /\ \E o \in Origins, dir \in Directions, s \in Starts :
          /\ InRange(s, mesh.tetnum)
          /\ Enter(o, dir, s, FreshRayhit)
    /\ caller' = [again |-> 1, left |-> d, first |-> FreshRayhit]

\* traverse_ray(mesh, rayo, rayd, start, left): the same arguments, the kept rayhit
call_again_with_kept_rayhit ==
    /\ pc = "done"
    /\ op = "traverse_ray"
    /\ caller.again = 1
    /\ Enter(rayo, rayd, start, caller.left)
    /\ caller' = [caller EXCEPT !.again = 2, !.first = d]

NextReuse ==
    \/ call_traverse_ray
    \/ traverse_ray_pass
    \/ traverse_ray_return
    \/ call_with_fresh_rayhit
    \/ call_again_with_kept_rayhit

SpecReuse == Init /\ [][NextReuse]_vars

(***************************************************************************)
(* Specification of IsPointInTetrahedron alone: the arguments are drawn    *)
(* from a grid and the function is applied to them.                        *)
(***************************************************************************)
Side == 3

Corners == { <<x, y, z>> : x \in {0, Side}, y \in {0, Side}, z \in {0, Side} }

GridPoints == { <<x, y, z>> : x \in 0..Side, y \in 0..Side, z \in 0..Side }

InitPIT ==
    /\ mesh = EmptyMesh
    /\ op = "IsPointInTetrahedron"
    /\ rayo = NoVec
    /\ rayd = NoVec
    /\ start = 0
    /\ endp \in GridPoints
    /\ tetv \in { <<a, b, c, e>> : a \in Corners, b \in Corners, c \in Corners, e \in Corners }
    /\ Cardinality({tetv[1], tetv[2], tetv[3], tetv[4]}) = 4
    /\ current_tet = 0
    /\ nexttet = 0
    /\ nextface = 0
    /\ lastface = 0
    /\ hitfound = FALSE
    /\ d = FreshRayhit
    /\ idx = 0
    /\ ret = 0
    /\ pit = FALSE
    /\ pc = "call"
    /\ calls = 0
    /\ oob = FALSE
    /\ nomatch = -1
    /\ stopped_at = -1
    /\ caller = NoCaller

call_IsPointInTetrahedron ==
    /\ pc = "call"
    /\ op = "IsPointInTetrahedron"
    /\ pit' = IsPointInTetrahedron(tetv[1], tetv[2], tetv[3], tetv[4], endp)
    /\ pc' = "done"
    /\ UNCHANGED <<caller, mesh, op, rayo, rayd, start, endp, tetv, current_tet, nexttet, nextface,
                   lastface, hitfound, d, idx, ret, calls, oob, nomatch, stopped_at>>

NextPIT == call_IsPointInTetrahedron

SpecPIT == InitPIT /\ [][NextPIT]_vars

(***************************************************************************)
(* Specification of GetExitTet on its own: one call on a tetrahedron whose *)
(* nodes are corners of a cube, a ray origin on the grid inside the cube   *)
(* and a ray direction; the four slots hold distinct faces and neighbours. *)
(***************************************************************************)
ExitSpan == 4

ExitCorners == { <<x, y, z>> : x \in {0, ExitSpan}, y \in {0, ExitSpan}, z \in {0, ExitSpan} }

ExitOrigins ==
    { <<x, y, z>> : x \in 1..(ExitSpan - 1), y \in 1..(ExitSpan - 1), z \in 1..(ExitSpan - 1) }

ExitDirections ==
    { <<1, 2, 3>>, <<-3, 1, 2>>, <<2, -3, -1>>, <<-1, -2, 3>>, <<3, -1, -2>>,
      <<1, 1, 1>>, <<-1, 0, 0>> }

\* findex and adjtet of the tetrahedron, slot 0 first
ExitFaces == <<11, 12, 13, 14>>

ExitNeighbours == <<21, 22, 23, 24>>

InitExit ==
    /\ mesh = EmptyMesh
    /\ op = "GetExitTet"
    /\ rayo \in ExitOrigins
    /\ rayd \in ExitDirections
    /\ start = 0
    /\ endp = NoVec
    /\ tetv \in { <<a, b, c, e>> : a \in ExitCorners, b \in ExitCorners,
                                  c \in ExitCorners, e \in ExitCorners }
    /\ Cardinality({tetv[1], tetv[2], tetv[3], tetv[4]}) = 4
    /\ current_tet = 0
    /\ nexttet = 0
    /\ nextface = 0
    /\ lastface = 0
    /\ hitfound = FALSE
    /\ d = FreshRayhit
    /\ idx = 0
    /\ ret = 0
    /\ pit = FALSE
    /\ pc = "call"
    /\ calls = 0
    /\ oob = FALSE
    /\ nomatch = -1
    /\ stopped_at = -1
    /\ caller = NoCaller

call_GetExitTet ==
    /\ pc = "call"
    /\ op = "GetExitTet"
    /\ LET ex == GetExitTet(rayo, rayd, tetv, ExitFaces, ExitNeighbours)
       IN  /\ nextface' = ex.face
           /\ nexttet' = ex.tet
    /\ calls' = calls + 1
    /\ pc' = "done"
    /\ UNCHANGED <<caller, mesh, op, rayo, rayd, start, endp, tetv, current_tet, lastface,
                   hitfound, d, idx, ret, pit, oob, nomatch, stopped_at>>

NextExit == call_GetExitTet

SpecExit == InitExit /\ [][NextExit]_vars

(***************************************************************************)
(* Properties                                                              *)
(***************************************************************************)
ValidStart == InRange(start, mesh.tetnum)

Returned(f) == op = f /\ pc = "done"

\* C1: traverse_ray called with a valid start invokes GetExitTet at most 80 times
\* and returns, also when the walk cycles through the mesh for ever: it never
\* faults, while it is in its loop d.depth is at most 80 and bounds the number of
\* invocations, and every step either raises d.depth by one or is the return.
C1_Terminates ==
    /\ []( (op = "traverse_ray" /\ ValidStart) =>
              /\ calls <= DepthBound
              /\ pc \in {"loop", "done"}
              /\ pc = "loop" => (d.depth <= DepthBound /\ calls <= d.depth) )
    /\ [][ (op = "traverse_ray" /\ ValidStart /\ pc = "loop") =>
              (pc' = "done" \/ (pc' = "loop" /\ d'.depth = d.depth + 1)) ]_vars

\* a walk that met no stopping face in any of the 80 passes has returned
C1_Witness ==
    Returned("traverse_ray") /\ ValidStart /\ calls = DepthBound /\ d.dark

FlagCount(dd) ==
    Cardinality({ k \in {"wall", "constrained", "dark"} : dd[k] })

\* C2 as stated: traverse_ray returns with exactly one of wall, constrained, dark set,
\* whatever the flags and the neighbour of the resolved face are.
C2_ExactlyOneFlag ==
    (Returned("traverse_ray") /\ ValidStart) => FlagCount(d) = 1

\* C2 amended: traverse_ray returns with at least one flag set; dark is set exactly
\* when neither wall nor constrained is; wall and constrained are both set exactly
\* when the stopping face is flagged constrained and also is flagged wall or has
\* neighbour -1.
C2_FlagsAmended ==
    (Returned("traverse_ray") /\ ValidStart) =>
        /\ d.dark <=> ~(d.wall \/ d.constrained)
        /\ (d.wall /\ d.constrained) <=>
               /\ hitfound
               /\ mesh.face_is_constrained[nextface + 1]
               /\ (mesh.face_is_wall[nextface + 1] \/ nexttet = -1)

C2_Witness ==
    Returned("traverse_ray") /\ ValidStart /\ d.wall /\ d.constrained /\ ~d.dark

\* the ray resolves the shared face in tetrahedron 0 and some face in tetrahedron 1
ThroughShared ==
    /\ mesh \in {SharedAt3, SharedAt0}
    /\ op = "traverse_ray"
    /\ start = 0
    /\ GetExitTet(rayo, rayd, TetNodes(mesh, 0), mesh.t_findex[1], mesh.t_adjtet[1]).tet = 1
    /\ ~NoExitMatch(rayo, rayd, TetNodes(mesh, 1))

C4_UnitTetExit ==
    ( /\ Returned("traverse_ray") /\ mesh = AllWallTet /\ start = 0
      /\ rayo = <<1, 1, 1>> /\ rayd = <<1, 1, 1>> )
    => ( /\ d.face = mesh.t_findex[1][1]
         /\ mesh.f_nodes[d.face + 1] = {1, 2, 3}
         /\ d.wall
         /\ d.tet = 0 )

C4_Witness ==
    /\ Returned("traverse_ray") /\ mesh = AllWallTet /\ start = 0
    /\ rayo = <<1, 1, 1>> /\ rayd = <<1, 1, 1>> /\ d.wall /\ d.face = 1

\* C5 as stated: the depth traverse_ray returns is the pass in which the walk
\* stopped (0 when it stops in the start tetrahedron).
C5_DepthIsStopPass ==
    (Returned("traverse_ray") /\ ValidStart /\ stopped_at >= 0) => d.depth = stopped_at

\* C6 as stated: traverse_until_point with the target inside the start tetrahedron
\* stops in the first pass with tet = start and neither wall nor constrained set.
C6_TargetInStart ==
    ( /\ Returned("traverse_until_point") /\ ValidStart
      /\ IsPointInThisTet(mesh, endp, start) )
    => (stopped_at = 0 /\ d.tet = start /\ ~d.wall /\ ~d.constrained)

\* C7 as stated: when GetExitTet matches no sign pattern the walk ends there:
\* the rayhit is dark, neither wall nor constrained, and names that tetrahedron.
C7_NoMatchIsDark ==
    (Returned("traverse_ray") /\ ValidStart /\ nomatch >= 0) =>
        (d.dark /\ ~d.wall /\ ~d.constrained /\ d.tet = nomatch)

\* C8 as stated: with start outside [0, tetnum) no mesh array is indexed outside
\* its size.
C8_RejectsBadStart ==
    ((op \in {"traverse_ray", "traverse_until_point"}) /\ ~ValidStart) => ~oob

Containing(m, p) == { t \in 0..(m.tetnum - 1) : IsPointInThisTet(m, p, t) }

\* C9 as stated: GetTetrahedraFromPoint returns the lowest tetrahedron containing
\* the point, and a value that is no tetrahedron index when none contains it.
C9_NotFoundExplicit ==
    Returned("GetTetrahedraFromPoint") =>
        IF Containing(mesh, endp) # {}
        THEN ret \in Containing(mesh, endp) /\ \A t \in Containing(mesh, endp) : ret <= t
        ELSE ~InRange(ret, mesh.tetnum)

\* determinant of the matrix with rows u, v, w
Det3(u, v, w) ==
    u[1] * (v[2] * w[3] - v[3] * w[2])
    - u[2] * (v[1] * w[3] - v[3] * w[1])
    + u[3] * (v[1] * w[2] - v[2] * w[1])

\* six times the signed volume of the tetrahedron a, b, c, x
Orient(a, b, c, x) == Det3(VSub(b, a), VSub(c, a), VSub(x, a))

\* p and opp lie strictly on the same side of the plane through a, b, c
StrictlySameSide(a, b, c, opp, p) == Orient(a, b, c, opp) * Orient(a, b, c, p) > 0

NonDegenerate(v) == Orient(v[1], v[2], v[3], v[4]) # 0

StrictlyInside(v, p) ==
    /\ StrictlySameSide(v[1], v[2], v[3], v[4], p)
    /\ StrictlySameSide(v[1], v[2], v[4], v[3], p)
    /\ StrictlySameSide(v[1], v[3], v[4], v[2], p)
    /\ StrictlySameSide(v[2], v[3], v[4], v[1], p)

\* C10: for a tetrahedron of non-zero volume IsPointInTetrahedron returns true
\* exactly when the point lies, for each of the four faces, strictly on the side of
\* the face plane on which the opposite vertex lies; a point on a face plane or
\* outside gives false.
C10_StrictInterior ==
    (op = "IsPointInTetrahedron" /\ pc = "done" /\ NonDegenerate(tetv)) =>
        (pit <=> StrictlyInside(tetv, endp))

\* a point on a face plane of a tetrahedron of non-zero volume, reported outside
C10_Witness ==
    /\ op = "IsPointInTetrahedron" /\ pc = "done" /\ NonDegenerate(tetv)
    /\ ~pit
    /\ Orient(tetv[1], tetv[2], tetv[3], endp) = 0
    /\ StrictlySameSide(tetv[1], tetv[2], tetv[4], tetv[3], endp)
    /\ StrictlySameSide(tetv[1], tetv[3], tetv[4], tetv[2], endp)
    /\ StrictlySameSide(tetv[2], tetv[3], tetv[4], tetv[1], endp)

\* C11 as stated: the rayhit traverse_ray returns depends on the mesh, rayo, rayd
\* and start only: the call repeated with the same arguments on a rayhit left over
\* from an earlier traversal returns what the call on a fresh rayhit returned.
C11_SameInputsSameResult ==
    (Returned("traverse_ray") /\ caller.again = 2) => d = caller.first

\* the slots whose sign pattern the signs s match: 3 for ABC, 2 for BAD, 1 for CDA,
\* 0 for DCB
PatternSlots(s) ==
    { k \in 0..3 : \/ (k = 3 /\ ExitABC(s))
                   \/ (k = 2 /\ ExitBAD(s))
                   \/ (k = 1 /\ ExitCDA(s))
                   \/ (k = 0 /\ ExitDCB(s)) }

SignRecords ==
    [sQAB : {-1, 0, 1}, sQBC : {-1, 0, 1}, sQAC : {-1, 0, 1},
     sQAD : {-1, 0, 1}, sQBD : {-1, 0, 1}, sQCD : {-1, 0, 1}]

\* the nodes of the face of slot k, which is the face opposite node k
SlotFace(v, k) ==
    IF k = 0 THEN <<v[2], v[3], v[4]>>
    ELSE IF k = 1 THEN <<v[1], v[3], v[4]>>
    ELSE IF k = 2 THEN <<v[1], v[2], v[4]>>
    ELSE <<v[1], v[2], v[3]>>

\* height of p over the plane of slot k, positive on the side of node k
Height(v, k, p) ==
    LET f == SlotFace(v, k)
    IN  signf(Orient(f[1], f[2], f[3], v[k + 1])) * Orient(f[1], f[2], f[3], p)

\* change of that height per unit step along dir
Climb(v, k, dir) ==
    LET f == SlotFace(v, k)
    IN  signf(Orient(f[1], f[2], f[3], v[k + 1]))
          * Det3(VSub(f[2], f[1]), VSub(f[3], f[1]), dir)

\* the ray from o inside v along dir meets the plane of slot k going forward, and
\* meets it before the plane of every other slot it is heading for
LeavesThrough(v, o, dir, k) ==
    /\ Climb(v, k, dir) < 0
    /\ \A j \in 0..3 \ {k} :
          Climb(v, j, dir) < 0 =>
              Height(v, k, o) * (-Climb(v, j, dir)) < Height(v, j, o) * (-Climb(v, k, dir))

PositivelyOriented(v) == Orient(v[1], v[2], v[3], v[4]) > 0

NoZeroSign(s) ==
    /\ s.sQAB # 0 /\ s.sQBC # 0 /\ s.sQAC # 0
    /\ s.sQAD # 0 /\ s.sQBD # 0 /\ s.sQCD # 0

\* the case of C12: GetExitTet has answered for a positively oriented tetrahedron,
\* an origin strictly inside it and a direction with no zero triple product
GeneralExit ==
    /\ op = "GetExitTet" /\ pc = "done"
    /\ PositivelyOriented(tetv)
    /\ StrictlyInside(tetv, rayo)
    /\ NoZeroSign(EdgeSigns(rayo, rayd, tetv))

\* for each of the 3^6 sign assignments at most one pattern matches, and GetExitTet
\* answers with the slot of the matching pattern, or face 0 and tet 0 when none does
AtMostOnePattern ==
    \A s \in SignRecords :
        /\ Cardinality(PatternSlots(s)) <= 1
        /\ ExitOf(s, ExitFaces, ExitNeighbours) =
              IF PatternSlots(s) = {} THEN [face |-> 0, tet |-> 0]
              ELSE LET k == CHOOSE j \in PatternSlots(s) : TRUE
                   IN  [face |-> ExitFaces[k + 1], tet |-> ExitNeighbours[k + 1]]

\* C12: for a positively oriented tetrahedron of non-zero volume, a ray origin
\* strictly inside it and a direction for which none of the six triple products is
\* zero, exactly one of the patterns ABC, BAD, CDA, DCB matches, and the face and the
\* neighbour GetExitTet returns are those of the slot (3 for ABC, 2 for BAD, 1 for
\* CDA, 0 for DCB) of the face through which the ray leaves the tetrahedron going
\* forward; for all 3^6 sign assignments at most one pattern matches, so the order
\* of the four checks does not change the result.
C12_ExitIsGeometric ==
    /\ GeneralExit =>
          /\ Cardinality(PatternSlots(EdgeSigns(rayo, rayd, tetv))) = 1
          /\ \A k \in 0..3 :
                LeavesThrough(tetv, rayo, rayd, k) <=>
                    (nextface = ExitFaces[k + 1] /\ nexttet = ExitNeighbours[k + 1])
          /\ \E k \in 0..3 : LeavesThrough(tetv, rayo, rayd, k)
    /\ AtMostOnePattern

\* the ray leaves through the face ABC, which is slot 3
C12_Witness ==
    /\ GeneralExit
    /\ LeavesThrough(tetv, rayo, rayd, 3)
    /\ ExitABC(EdgeSigns(rayo, rayd, tetv))
    /\ nextface = ExitFaces[4]

====
